---------------------------- MODULE Spec2Model ----------------------------
(***************************************************************************)
(* Intel Hex loader (src/intel_hex_loader.py), the host side of the PICO   *)
(* serial transfer (src/pico_serial_loader.py) and the PICO side of it     *)
(* (src/main.py).                                                          *)
(*                                                                         *)
(* Text is modelled character by character: a string is a sequence of     *)
(* one-character strings, so that formatting ({:02X}) and parsing          *)
(* (int(s, 16), split(':')) are separate operators.  Python slices         *)
(* line[a:b] are SubSeq(line, a + 1, b).                                   *)
(*                                                                         *)
(* Four specifications share the module:                                   *)
(*   SpecParse     IntelHexLoader._parse_line applied to one line          *)
(*   SpecDecode    decode sessions (load_string) and the image queries     *)
(*   SpecTransfer  PicoSerialLoader.transfer_hex_file against a transport  *)
(*   SpecResponder PicoHexLoader.run on the bytes its serial port delivers *)
(***************************************************************************)
EXTENDS Integers, Sequences, FiniteSets, TLC

VARIABLES
    \* ---- SpecParse: one call of _parse_line
    input,      \* how the line was synthesised (the record and the damage done to it)
    line,       \* the argument `line` of _parse_line
    result,     \* what _parse_line returned or raised; NoResult before the call
    \* ---- SpecDecode: one IntelHexLoader object
    records,                    \* self.records
    memory,                     \* self.memory
    start_address,              \* self.start_address
    extended_linear_address,    \* self.extended_linear_address
    extended_segment_address,   \* self.extended_segment_address
    lines,      \* the lines the loop of the running / last _parse_lines call has taken
    line_num,   \* line_num of that loop
    status,     \* "new" | "running" | "returned" | "raised"
    ret,        \* the last query (to_binary / get_memory_map) and what it returned
    \* ---- SpecTransfer: one PicoSerialLoader object in transfer_hex_file
    pc,             \* where transfer_hex_file is
    pulse_arg,      \* the argument pulse_ms of transfer_hex_file (tenths of a ms)
    image,          \* loader.memory of the loaded hex file
    pulse_ms,       \* self.pulse_ms (tenths of a ms)
    chunk_size,     \* self.chunk_size
    written,        \* every command given to self.serial.write, in order
    replies,        \* what each send_command read back (or NoReply)
    idx,            \* the loop variable i of transfer_hex_file
    transferred_bytes,
    error,          \* the exception that ended transfer_hex_file, or "none"
    \* ---- SpecResponder: one PicoHexLoader object in run()
    rpc,            \* where run() is: "start" | "read" | "dispatch"
    passes,         \* how many times the loop has called read_line
    rx_data,        \* `data` of the last read_line call: what serial.read() gave
    rx_stream,      \* every byte serial.read() has given so far, in order
    rx_buffer,      \* self.rx_buffer
    rline,          \* `line` of run(): what the last read_line call returned
    we_pulse_ms,    \* self.we_pulse_ms (tenths of a ms)
    addr_pins,      \* the levels of self.addr_pins, bit i = pin i
    data_pins,      \* the levels of self.data_pins, bit i = pin i
    we_pin,         \* self.we_pin.value (TRUE = high = inactive)
    events          \* the trace of run(): lines taken, responses written,
                    \* write_byte calls, resets of the pins

parseVars == <<input, line, result>>
loaderVars == <<records, memory, start_address, extended_linear_address,
                extended_segment_address, lines, line_num, status, ret>>
xferVars == <<pc, pulse_arg, image, pulse_ms, chunk_size, written, replies, idx,
              transferred_bytes, error>>
respVars == <<rpc, passes, rx_data, rx_stream, rx_buffer, rline, we_pulse_ms, addr_pins,
              data_pins, we_pin, events>>
vars == <<parseVars, loaderVars, xferVars, respVars>>

(***************************************************************************)
(* Bounds of the model.                                                    *)
(***************************************************************************)
MaxData == 2        \* payload bytes of a synthesised record (SpecParse)
MaxLines == 3       \* lines of one decode session (SpecDecode)
MaxSpan == 20       \* longest address range to_binary is asked for (SpecDecode)
MaxCells == 3       \* bytes of the image that is transferred (SpecTransfer)

(***************************************************************************)
(* Characters and hexadecimal text.                                        *)
(***************************************************************************)
UpperHex == <<"0", "1", "2", "3", "4", "5", "6", "7", "8", "9",
              "A", "B", "C", "D", "E", "F">>
LowerHex == <<"0", "1", "2", "3", "4", "5", "6", "7", "8", "9",
              "a", "b", "c", "d", "e", "f">>

IsHexChar(c) == \E k \in 1..16 : UpperHex[k] = c \/ LowerHex[k] = c

HexVal(c) == (CHOOSE k \in 1..16 : UpperHex[k] = c \/ LowerHex[k] = c) - 1

\* int(s, 16) for a string of hexadecimal digits, most significant first
RECURSIVE IntHex(_)
IntHex(s) ==
    IF s = <<>> THEN 0
    ELSE 16 * IntHex(SubSeq(s, 1, Len(s) - 1)) + HexVal(s[Len(s)])

\* int(s, 16) as _parse_line uses it on the checksum field: int() ignores
\* surrounding white space, and the only white space hex_pattern lets
\* through is one line feed at the very end of the line
IntField(s) ==
    IF s # <<>> /\ s[Len(s)] = "\n" THEN IntHex(SubSeq(s, 1, Len(s) - 1))
    ELSE IntHex(s)

\* f"{b:02X}" for 0 <= b <= 255
Hex2(b) == <<UpperHex[(b \div 16) + 1], UpperHex[(b % 16) + 1]>>

\* ''.join(f'{b:02X}' for b in data)
RECURSIVE HexBytes(_)
HexBytes(data) ==
    IF data = <<>> THEN <<>> ELSE Hex2(Head(data)) \o HexBytes(Tail(data))

\* bytes.fromhex(s) for an even number of hexadecimal digits
RECURSIVE FromHex(_)
FromHex(s) ==
    IF Len(s) < 2 THEN <<>>
    ELSE <<IntHex(SubSeq(s, 1, 2))>> \o FromHex(SubSeq(s, 3, Len(s)))

\* sum(data)
RECURSIVE SumSeq(_)
SumSeq(s) == IF s = <<>> THEN 0 ELSE Head(s) + SumSeq(Tail(s))

\* str.lower() on one character
ToLower(c) ==
    IF \E k \in 1..16 : UpperHex[k] = c
    THEN LowerHex[CHOOSE k \in 1..16 : UpperHex[k] = c]
    ELSE c

(***************************************************************************)
(* RecordType (IntEnum) and HexRecord.                                     *)
(***************************************************************************)
DATA == 0
END_OF_FILE == 1
EXT_SEGMENT_ADDR == 2
START_SEGMENT_ADDR == 3
EXT_LINEAR_ADDR == 4
START_LINEAR_ADDR == 5

\* the values RecordType(n) accepts; any other n raises ValueError
RecordType == {DATA, END_OF_FILE, EXT_SEGMENT_ADDR, START_SEGMENT_ADDR,
               EXT_LINEAR_ADDR, START_LINEAR_ADDR}

HexRecord(len, addr, type, data, cks, lnum) ==
    [error |-> "none", length |-> len, address |-> addr, record_type |-> type,
     data |-> data, checksum |-> cks, line_number |-> lnum]

\* raise ValueError(...): the call yields no record
Raise(what, lnum) ==
    [error |-> what, length |-> 0, address |-> 0, record_type |-> 0,
     data |-> <<>>, checksum |-> 0, line_number |-> lnum]

NoResult == Raise("not_called", 0)

(***************************************************************************)
(* IntelHexLoader._calculate_checksum                                      *)
(***************************************************************************)
_calculate_checksum_no_type(length, address, record_type, data) ==
    (256 - ((length + ((address \div 256) % 256) + (address % 256)
             + SumSeq(data)) % 256)) % 256

_calculate_checksum(length, address, record_type, data) ==
    (256 - ((length + ((address \div 256) % 256) + (address % 256)
             + record_type + SumSeq(data)) % 256)) % 256

(***************************************************************************)
(* IntelHexLoader._parse_line                                              *)
(***************************************************************************)
\* re.compile(r'^:[0-9A-Fa-f]+$').match(line): '$' also matches just
\* before a line feed that ends the string
HexPatternMatch(l) ==
    /\ Len(l) >= 2
    /\ l[1] = ":"
    /\ LET last == IF l[Len(l)] = "\n" THEN Len(l) - 1 ELSE Len(l)
       IN  /\ last >= 2
           /\ \A k \in 2..last : IsHexChar(l[k])

\* the body of the try block, entered with Len(l) >= 11 and the pattern matched
ParseFields(l, lnum) ==
    LET length == IntHex(SubSeq(l, 2, 3))
        address == IntHex(SubSeq(l, 4, 7))
        type == IntHex(SubSeq(l, 8, 9))
        data_end == 9 + (length * 2)
    IN  IF type \notin RecordType THEN Raise("parse_error_record_type", lnum)
        ELSE IF Len(l) < data_end + 2 THEN Raise("parse_error_data_length", lnum)
        ELSE LET data == FromHex(SubSeq(l, 10, data_end))
                 checksum == IntField(SubSeq(l, data_end + 1, data_end + 2))
             IN  IF _calculate_checksum(length, address, type, data) # checksum
                 THEN Raise("checksum_error", lnum)
                 ELSE HexRecord(length, address, type, data, checksum, lnum)

\* the mutant of _parse_line that tests the characters before the length
_parse_line_pattern_first(l, lnum) ==
    IF l = <<>> \/ l[1] # ":" THEN Raise("missing_start", lnum)
    ELSE IF ~HexPatternMatch(l) THEN Raise("invalid_chars", lnum)
    ELSE IF Len(l) < 11 THEN Raise("too_short", lnum)
    ELSE ParseFields(l, lnum)

_parse_line(l, lnum) ==
    IF l = <<>> \/ l[1] # ":" THEN Raise("missing_start", lnum)
    ELSE IF Len(l) < 11 THEN Raise("too_short", lnum)
    ELSE IF ~HexPatternMatch(l) THEN Raise("invalid_chars", lnum)
    ELSE ParseFields(l, lnum)

(***************************************************************************)
(* Synthesis of record lines: ":LLAAAATT<data>CC" in upper-case digits.    *)
(***************************************************************************)
Hex4(a) == Hex2((a \div 256) % 256) \o Hex2(a % 256)

RecordLine(len, addr, type, data, cks) ==
    <<":">> \o Hex2(len) \o Hex4(addr) \o Hex2(type) \o HexBytes(data) \o Hex2(cks)

\* the checksum the record format prescribes: the two's complement (mod 256)
\* of the sum of byte count, address bytes, type and payload
FormatChecksum(len, addr, type, data) ==
    CHOOSE c \in 0..255 :
        (len + (addr \div 256) + (addr % 256) + type + SumSeq(data) + c) % 256 = 0

(***************************************************************************)
(* SpecParse: _parse_line applied to synthesised lines.  An input is a     *)
(* record (byte count, address, type, payload) written with the checksum   *)
(* of the format, and then optionally damaged: one payload bit flipped,    *)
(* digits in lower case, the ':' replaced, characters dropped from the     *)
(* end, one character replaced by a letter that is no digit, the byte      *)
(* count raised.                                                           *)
(***************************************************************************)
PayloadBytes == {0, 90, 255}
SynthAddresses == {32, 43981}
TypeCodes == RecordType \cup {6}
Payloads == UNION {[1..n -> PayloadBytes] : n \in 0..MaxData}

FlipBit(v, b) == IF (v \div (2 ^ b)) % 2 = 1 THEN v - 2 ^ b ELSE v + 2 ^ b

SynthRecords ==
    [address : SynthAddresses, record_type : TypeCodes, data : Payloads]

Undamaged(r) ==
    [address |-> r.address, record_type |-> r.record_type, data |-> r.data,
     lower |-> FALSE, flip |-> <<>>, no_start |-> FALSE, drop |-> 0, bad |-> 0,
     count |-> 0]

CleanInputs(r) ==
    {[Undamaged(r) EXCEPT !.lower = lw] : lw \in BOOLEAN}

FlippedInputs(r) ==
    {[Undamaged(r) EXCEPT !.flip = <<i, b>>] : i \in 1..Len(r.data), b \in 0..7}

BrokenInputs(r) ==
    {[Undamaged(r) EXCEPT !.no_start = ns, !.drop = d, !.bad = p, !.count = c] :
        ns \in BOOLEAN,
        d \in {0, 1, 2, 2 * Len(r.data) + 1, 2 * Len(r.data) + 10},
        p \in {0, 3, 11},
        c \in {0, 1}}

\* the inputs made from the record r
ParseInputs(r) == CleanInputs(r) \cup FlippedInputs(r) \cup BrokenInputs(r)

\* the line an input stands for
SynthLine(in) ==
    LET n == Len(in.data)
        cks == FormatChecksum(n, in.address, in.record_type, in.data)
        sent == IF in.flip = <<>> THEN in.data
                ELSE [in.data EXCEPT ![in.flip[1]] = FlipBit(@, in.flip[2])]
        l0 == RecordLine(n + in.count, in.address, in.record_type, sent, cks)
        l1 == IF in.lower THEN [k \in 1..Len(l0) |-> ToLower(l0[k])] ELSE l0
        l2 == SubSeq(l1, 1, Len(l1) - in.drop)
        l3 == IF in.bad \in 1..Len(l2) THEN [l2 EXCEPT ![in.bad] = "G"] ELSE l2
    IN  IF in.no_start THEN [l3 EXCEPT ![1] = "G"] ELSE l3

NoInput == [Undamaged([address |-> 0, record_type |-> 0, data |-> <<>>])
              EXCEPT !.drop = 11]

\* Optional[int]: None
None == -1

RESPONSE_TIMEOUT == 50000       \* 5.0 s, in tenths of a ms
DEFAULT_PULSE == 3              \* 0.3 ms, in tenths of a ms

\* no query made since the image last changed
NoRet == [op |-> "none", fill |-> 0, start |-> None, end |-> None, value |-> <<>>]

\* IntelHexLoader.__init__
LoaderIdle ==
    /\ records = <<>>
    /\ memory = <<>>
    /\ start_address = None
    /\ extended_linear_address = 0
    /\ extended_segment_address = 0
    /\ lines = <<>>
    /\ line_num = 0
    /\ status = "new"
    /\ ret = NoRet

\* PicoSerialLoader.__init__, connected, before transfer_hex_file
XferIdle ==
    /\ pc = "idle"
    /\ pulse_arg = 0
    /\ image = <<>>
    /\ pulse_ms = DEFAULT_PULSE
    /\ chunk_size = 128
    /\ written = <<>>
    /\ replies = <<>>
    /\ idx = 0
    /\ transferred_bytes = 0
    /\ error = "none"

DEFAULT_WE_PULSE == 3           \* self.we_pulse_ms = 0.3, in tenths of a ms

\* read_line / run: `line` is None
NoLine == <<"None">>

\* PicoHexLoader.__init__, before run()
RespIdle ==
    /\ rpc = "start"
    /\ passes = 0
    /\ rx_data = <<>>
    /\ rx_stream = <<>>
    /\ rx_buffer = <<>>
    /\ rline = NoLine
    /\ we_pulse_ms = DEFAULT_WE_PULSE
    /\ addr_pins = 0
    /\ data_pins = 0
    /\ we_pin = TRUE
    /\ events = <<>>

ParseIdle ==
    /\ input = NoInput
    /\ line = <<>>
    /\ result = NoResult

InitParse ==
    /\ \E r \in SynthRecords : input \in ParseInputs(r)
    /\ line = SynthLine(input)
    /\ result = NoResult
    /\ LoaderIdle
    /\ XferIdle
    /\ RespIdle

\* record = self._parse_line(line, line_number)
ParseLine ==
    /\ result = NoResult
    /\ result' = _parse_line(line, 1)
    /\ UNCHANGED <<input, line, loaderVars, xferVars, respVars>>

NextParse == ParseLine

SpecParse == InitParse /\ [][NextParse]_vars

(***************************************************************************)
(* Claims about _parse_line (checked under SpecParse).                     *)
(***************************************************************************)
Parsed == result # NoResult

\* the input is a record line as synthesised, at most with lower-case digits
IsClean(in) ==
    in.flip = <<>> /\ ~in.no_start /\ in.drop = 0 /\ in.bad = 0 /\ in.count = 0

\* C1: a record line written with the checksum of the format (the two's
\* complement mod 256 of the sum of byte count, address bytes, type and
\* payload) and a known record type parses, and the record returned has
\* exactly that byte count, address, type and payload; the same line with
\* one payload bit flipped and the checksum kept raises the checksum error.
C1_ChecksumLaw ==
    Parsed /\ input.record_type \in RecordType =>
        /\ IsClean(input) =>
              /\ result.error = "none"
              /\ result.length = Len(input.data)
              /\ result.address = input.address
              /\ result.record_type = input.record_type
              /\ result.data = input.data
        /\ input.flip # <<>> => result.error = "checksum_error"

C1_Witness ==
    /\ Parsed
    /\ input.flip # <<>>
    /\ input.record_type = DATA
    /\ Len(input.data) = 2
    /\ result.error = "checksum_error"

\* the four preconditions of the claim, as properties of the line alone
NoSentinel(l) == l = <<>> \/ l[1] # ":"
NotAllHex(l) == \E k \in 2..Len(l) : ~IsHexChar(l[k])
BelowHeaderWidth(l) == Len(l) < 11
CountExceedsLine(l) ==
    /\ Len(l) >= 3
    /\ IsHexChar(l[2])
    /\ IsHexChar(l[3])
    /\ Len(l) < 11 + 2 * (16 * HexVal(l[2]) + HexVal(l[3]))

Violations(l) ==
    {n \in 1..4 : \/ n = 1 /\ NoSentinel(l)
                  \/ n = 2 /\ NotAllHex(l)
                  \/ n = 3 /\ BelowHeaderWidth(l)
                  \/ n = 4 /\ CountExceedsLine(l)}

\* C4 as claimed: the checks come in the order sentinel, hexadecimal
\* digits, header width, byte count, and a line that violates several of
\* them gets the error of the earliest one in that order.
C4_ClaimedOrder ==
    Parsed /\ Cardinality(Violations(line)) >= 2 =>
        result.error =
            IF NoSentinel(line) THEN "missing_start"
            ELSE IF NotAllHex(line) THEN "invalid_chars"
            ELSE IF BelowHeaderWidth(line) THEN "too_short"
            ELSE "parse_error_data_length"

\* C4 as amended: the order is sentinel, header width, hexadecimal digits,
\* byte count; each check has its own error, and a line gets the error of
\* the earliest check it violates in that order (the byte count is checked
\* once the record type has been recognised).
C4_CodeOrder ==
    Parsed =>
        /\ NoSentinel(line) => result.error = "missing_start"
        /\ ~NoSentinel(line) /\ BelowHeaderWidth(line) => result.error = "too_short"
        /\ ~NoSentinel(line) /\ ~BelowHeaderWidth(line) /\ NotAllHex(line) =>
              result.error = "invalid_chars"
        /\ ~NoSentinel(line) /\ ~BelowHeaderWidth(line) /\ ~NotAllHex(line)
              /\ CountExceedsLine(line) /\ input.record_type \in RecordType =>
              result.error = "parse_error_data_length"

C4_Witness ==
    /\ Parsed
    /\ ~NoSentinel(line)
    /\ BelowHeaderWidth(line)
    /\ NotAllHex(line)
    /\ result.error = "too_short"

(***************************************************************************)
(* IntelHexLoader._process_record: the loader's fields after the call, and *)
(* whether it raised.  memory is a function from the stored addresses.     *)
(***************************************************************************)
Store(mem, base, data) ==
    [a \in DOMAIN mem \cup {base + i - 1 : i \in 1..Len(data)} |->
        IF a - base + 1 \in 1..Len(data) THEN data[a - base + 1] ELSE mem[a]]

Fields(raised, mem, lin, seg, start) ==
    [raised |-> raised, memory |-> mem, extended_linear_address |-> lin,
     extended_segment_address |-> seg, start_address |-> start]

_process_record_no_segment(record, mem, lin, seg, start) ==
    IF record.record_type = DATA
    THEN Fields(FALSE, Store(mem, (lin * 65536) + record.address, record.data),
                lin, seg, start)
    ELSE IF record.record_type = EXT_LINEAR_ADDR
    THEN IF Len(record.data) # 2 THEN Fields(TRUE, mem, lin, seg, start)
         ELSE Fields(FALSE, mem, record.data[1] * 256 + record.data[2], seg, start)
    ELSE IF record.record_type = EXT_SEGMENT_ADDR
    THEN IF Len(record.data) # 2 THEN Fields(TRUE, mem, lin, seg, start)
         ELSE Fields(FALSE, mem, lin,
                     (record.data[1] * 256 + record.data[2]) * 16, start)
    ELSE IF record.record_type = START_LINEAR_ADDR
    THEN IF Len(record.data) # 4 THEN Fields(TRUE, mem, lin, seg, start)
         ELSE Fields(FALSE, mem, lin, seg,
                     record.data[1] * 16777216 + record.data[2] * 65536
                     + record.data[3] * 256 + record.data[4])
    ELSE Fields(FALSE, mem, lin, seg, start)

_process_record(record, mem, lin, seg, start) ==
    IF record.record_type = DATA
    THEN Fields(FALSE, Store(mem, (lin * 65536) + seg + record.address, record.data),
                lin, seg, start)
    ELSE IF record.record_type = EXT_LINEAR_ADDR
    THEN IF Len(record.data) # 2 THEN Fields(TRUE, mem, lin, seg, start)
         ELSE Fields(FALSE, mem, record.data[1] * 256 + record.data[2], seg, start)
    ELSE IF record.record_type = EXT_SEGMENT_ADDR
    THEN IF Len(record.data) # 2 THEN Fields(TRUE, mem, lin, seg, start)
         ELSE Fields(FALSE, mem, lin,
                     (record.data[1] * 256 + record.data[2]) * 16, start)
    ELSE IF record.record_type = START_LINEAR_ADDR
    THEN IF Len(record.data) # 4 THEN Fields(TRUE, mem, lin, seg, start)
         ELSE Fields(FALSE, mem, lin, seg,
                     record.data[1] * 16777216 + record.data[2] * 65536
                     + record.data[3] * 256 + record.data[4])
    ELSE Fields(FALSE, mem, lin, seg, start)

(***************************************************************************)
(* IntelHexLoader.get_memory_map and to_binary                             *)
(***************************************************************************)
Min(S) == CHOOSE x \in S : \A y \in S : x <= y
Max(S) == CHOOSE x \in S : \A y \in S : x >= y

\* sorted(S)
RECURSIVE sorted(_)
sorted(S) == IF S = {} THEN <<>> ELSE <<Min(S)>> \o sorted(S \ {Min(S)})

\* the for loop of get_memory_map over sorted_addresses[k:], then the
\* append of the last region
RECURSIVE RegionLoop(_, _, _, _, _)
RegionLoop(addrs, k, region_start, prev_addr, regions) ==
    IF k > Len(addrs) THEN Append(regions, <<region_start, prev_addr>>)
    ELSE IF addrs[k] # prev_addr + 1
         THEN RegionLoop(addrs, k + 1, addrs[k], addrs[k],
                         Append(regions, <<region_start, prev_addr>>))
         ELSE RegionLoop(addrs, k + 1, region_start, addrs[k], regions)

\* the mutant of get_memory_map that closes a region at the address that
\* breaks the run instead of at the one before it
RECURSIVE RegionLoopLate(_, _, _, _, _)
RegionLoopLate(addrs, k, region_start, prev_addr, regions) ==
    IF k > Len(addrs) THEN Append(regions, <<region_start, prev_addr>>)
    ELSE IF addrs[k] # prev_addr + 1
         THEN RegionLoopLate(addrs, k + 1, addrs[k], addrs[k],
                             Append(regions, <<region_start, addrs[k]>>))
         ELSE RegionLoopLate(addrs, k + 1, region_start, addrs[k], regions)

get_memory_map_late(mem) ==
    IF DOMAIN mem = {} THEN <<>>
    ELSE LET sorted_addresses == sorted(DOMAIN mem)
         IN  RegionLoopLate(sorted_addresses, 2, sorted_addresses[1],
                            sorted_addresses[1], <<>>)

get_memory_map(mem) ==
    IF DOMAIN mem = {} THEN <<>>
    ELSE LET sorted_addresses == sorted(DOMAIN mem)
         IN  RegionLoop(sorted_addresses, 2, sorted_addresses[1],
                        sorted_addresses[1], <<>>)

\* the address range to_binary walks once the image is known not to be empty
BinaryRange(mem, start, end) ==
    LET min_addr == IF start = None THEN Min(DOMAIN mem) ELSE start
        max_addr == IF end = None THEN Max(DOMAIN mem) ELSE end
    IN  <<min_addr, max_addr>>

to_binary(mem, fill_byte, start, end) ==
    IF DOMAIN mem = {} THEN <<>>
    ELSE LET r == BinaryRange(mem, start, end)
         IN  [k \in 1..(r[2] - r[1] + 1) |->
                 IF r[1] + k - 1 \in DOMAIN mem THEN mem[r[1] + k - 1]
                 ELSE fill_byte]

(***************************************************************************)
(* SpecDecode: decode sessions on one loader, and the queries between      *)
(* them.  A session's input is a list of lines taken from LineMenu.        *)
(***************************************************************************)
MenuLine(type, addr, data) ==
    RecordLine(Len(data), addr, type, data, FormatChecksum(Len(data), addr, type, data))

LineMenu ==
    { MenuLine(DATA, 0, <<17, 34>>),
      MenuLine(DATA, 1, <<51, 68>>),
      MenuLine(EXT_LINEAR_ADDR, 0, <<0, 1>>),
      MenuLine(EXT_SEGMENT_ADDR, 0, <<0, 1>>),
      MenuLine(START_LINEAR_ADDR, 0, <<0, 1, 2, 3>>),
      MenuLine(START_LINEAR_ADDR, 0, <<0, 0, 1, 0>>),
      MenuLine(END_OF_FILE, 0, <<>>),
      \* a data line whose checksum is off by one
      RecordLine(1, 2, DATA, <<85>>, (FormatChecksum(1, 2, DATA, <<85>>) + 1) % 256),
      \* an extended linear address record with one payload byte
      MenuLine(EXT_LINEAR_ADDR, 0, <<1>>) }

FillBytes == {0, 255}
QueryRanges == {<<None, None>>, <<0, 3>>, <<2, 2>>, <<3, 1>>, <<1, None>>, <<None, 2>>}

InitDecode ==
    /\ LoaderIdle
    /\ ParseIdle
    /\ XferIdle
    /\ RespIdle

\* _parse_lines up to its loop: the image and the extension state are reset.
\* The lines of the session are drawn one by one as the loop reaches them:
\* `lines` holds those consumed so far.
ParseLinesStart ==
    /\ status # "running"
    /\ records' = <<>>
    /\ memory' = <<>>
    /\ extended_linear_address' = 0
    /\ extended_segment_address' = 0
    /\ lines' = <<>>
    /\ line_num' = 0
    /\ status' = "running"
    /\ ret' = NoRet
    /\ UNCHANGED <<start_address, parseVars, xferVars, respVars>>

\* one iteration of the loop of _parse_lines, on the next line l of the
\* input; an exception of _parse_line or _process_record leaves
\* _parse_lines (and load_string) at once
ParseLinesStep(l) ==
    /\ status = "running"
    /\ line_num < MaxLines
    /\ lines' = Append(lines, l)
    /\ line_num' = line_num + 1
    /\ LET record == _parse_line(l, line_num + 1)
           f == _process_record(record, memory, extended_linear_address,
                                extended_segment_address, start_address)
       IN  IF record.error # "none"
           THEN /\ status' = "raised"
                /\ UNCHANGED <<records, memory, extended_linear_address,
                               extended_segment_address, start_address>>
           ELSE /\ records' = Append(records, record)
                /\ memory' = f.memory
                /\ extended_linear_address' = f.extended_linear_address
                /\ extended_segment_address' = f.extended_segment_address
                /\ start_address' = f.start_address
                /\ status' = IF f.raised THEN "raised" ELSE "running"
    /\ UNCHANGED <<ret, parseVars, xferVars, respVars>>

\* the input has no further line: the loop ends and load_string returns
ParseLinesReturn ==
    /\ status = "running"
    /\ status' = "returned"
    /\ UNCHANGED <<records, memory, start_address, extended_linear_address,
                   extended_segment_address, lines, line_num, ret, parseVars, xferVars, respVars>>

GetMemoryMap ==
    /\ status # "running"
    /\ ret' = [NoRet EXCEPT !.op = "get_memory_map", !.value = get_memory_map(memory)]
    /\ UNCHANGED <<records, memory, start_address, extended_linear_address,
                   extended_segment_address, lines, line_num, status, parseVars,
                   xferVars, respVars>>

ToBinary(fill_byte, start, end) ==
    /\ status # "running"
    /\ IF DOMAIN memory = {} THEN TRUE
       ELSE LET r == BinaryRange(memory, start, end) IN r[2] - r[1] < MaxSpan
    /\ ret' = [op |-> "to_binary", fill |-> fill_byte, start |-> start, end |-> end,
               value |-> to_binary(memory, fill_byte, start, end)]
    /\ UNCHANGED <<records, memory, start_address, extended_linear_address,
                   extended_segment_address, lines, line_num, status, parseVars,
                   xferVars, respVars>>

NextDecode ==
    \/ ParseLinesStart
    \/ \E l \in LineMenu : ParseLinesStep(l)
    \/ ParseLinesReturn
    \/ GetMemoryMap
    \/ \E fill_byte \in FillBytes, r \in QueryRanges : ToBinary(fill_byte, r[1], r[2])

SpecDecode == InitDecode /\ [][NextDecode]_vars

(***************************************************************************)
(* Claims about decode sessions and the image (checked under SpecDecode).  *)
(***************************************************************************)
\* the value set by the most recent record of type `type` among
\* records[1..k-1], read as a 16-bit big-endian number; 0 when there is none
LatestExtension(k, type) ==
    LET earlier == {j \in 1..(k - 1) : records[j].record_type = type}
    IN  IF earlier = {} THEN 0
        ELSE records[Max(earlier)].data[1] * 256 + records[Max(earlier)].data[2]

\* the address the claim gives byte i (from 0) of the data record records[k]
ClaimedAddress(k, i) ==
    (LatestExtension(k, EXT_LINEAR_ADDR) * 65536)
    + (LatestExtension(k, EXT_SEGMENT_ADDR) * 16) + records[k].address + i

\* <<k, i>>: byte i (from 0) of the data record records[k]
DataBytes ==
    UNION {{<<k, i>> : i \in 0..(Len(records[k].data) - 1)} :
              k \in {n \in 1..Len(records) : records[n].record_type = DATA}}

\* C2: while a session runs and after it returned, every byte i of every
\* Data record decoded in it is stored at (linear_extension << 16) +
\* segment_extension + record.address + i, with the extensions of the most
\* recent ExtLinearAddr / ExtSegmentAddr record earlier in the same session
\* and 0 when the session has none (whatever earlier sessions set): the
\* image holds exactly these addresses, each with the byte of the last
\* record that wrote it.
C2_EffectiveAddress ==
    status \in {"running", "returned"} =>
        /\ DOMAIN memory = {ClaimedAddress(b[1], b[2]) : b \in DataBytes}
        /\ \A b \in DataBytes :
              (\A c \in DataBytes :
                  ClaimedAddress(c[1], c[2]) = ClaimedAddress(b[1], b[2])
                      => c[1] <= b[1])
              => memory[ClaimedAddress(b[1], b[2])] = records[b[1]].data[b[2] + 1]

\* a later session on the same loader (the entry point of an earlier one is
\* still there) with both extensions set before a data record
C2_Witness ==
    /\ status = "returned"
    /\ start_address # None
    /\ Len(records) = 3
    /\ records[1].record_type = EXT_LINEAR_ADDR
    /\ records[2].record_type = EXT_SEGMENT_ADDR
    /\ records[3].record_type = DATA
    /\ 65552 \in DOMAIN memory
    /\ memory[65552] = 17

\* C3 as claimed: when a session raised, the image holds none of the bytes
\* of the Data records decoded before the failing line.
C3_NoPartialImage ==
    status = "raised" =>
        \A b \in DataBytes : ClaimedAddress(b[1], b[2]) \notin DOMAIN memory

\* C5: get_memory_map returns regions sorted by start, pairwise disjoint,
\* each a maximal run of consecutive stored addresses, whose union is the
\* set of stored addresses; the empty list for the empty image.
C5_Regions ==
    ret.op = "get_memory_map" =>
        LET regions == ret.value
            stored == DOMAIN memory
        IN  /\ stored = {} => regions = <<>>
            /\ \A n \in 1..Len(regions) :
                  /\ regions[n][1] <= regions[n][2]
                  /\ \A a \in regions[n][1]..regions[n][2] : a \in stored
                  /\ regions[n][1] - 1 \notin stored
                  /\ regions[n][2] + 1 \notin stored
            /\ \A n \in 1..(Len(regions) - 1) : regions[n][2] < regions[n + 1][1]
            /\ \A a \in stored :
                  \E n \in 1..Len(regions) : regions[n][1] <= a /\ a <= regions[n][2]

C5_Witness ==
    /\ ret.op = "get_memory_map"
    /\ Len(ret.value) = 2
    /\ ret.value[1] = <<0, 1>>
    /\ ret.value[2] = <<16, 17>>

\* C6 as claimed: for every image, also the empty one, and every explicit
\* range start <= end, to_binary returns end - start + 1 bytes, the stored
\* byte where one is stored and fill_byte elsewhere; without an explicit
\* range the range is the minimum to the maximum stored address.  (The
\* claim's last clause, on when the result is empty, follows from these.)
C6_DenseRange ==
    ret.op = "to_binary" =>
        /\ ret.start # None /\ ret.end # None /\ ret.start <= ret.end =>
              /\ Len(ret.value) = ret.end - ret.start + 1
              /\ \A k \in 1..Len(ret.value) :
                    ret.value[k] = IF ret.start + k - 1 \in DOMAIN memory
                                   THEN memory[ret.start + k - 1] ELSE ret.fill
        /\ ret.start = None /\ ret.end = None /\ DOMAIN memory # {} =>
              /\ Len(ret.value) = Max(DOMAIN memory) - Min(DOMAIN memory) + 1
              /\ \A k \in 1..Len(ret.value) :
                    ret.value[k] = IF Min(DOMAIN memory) + k - 1 \in DOMAIN memory
                                   THEN memory[Min(DOMAIN memory) + k - 1]
                                   ELSE ret.fill

(***************************************************************************)
(* PicoSerialLoader: text helpers.  Pulse widths are counted in tenths of  *)
(* a millisecond, so 0.3 ms is 3 and the valid range [0.1, 1000] is        *)
(* 1..10000; for such values the float arithmetic of                       *)
(* adjust_transfer_parameters is exact.                                    *)
(***************************************************************************)
IsSpace(c) == c \in {" ", "\t", "\r", "\n"}

\* str.strip()
RECURSIVE Strip(_)
Strip(s) ==
    IF s = <<>> THEN s
    ELSE IF IsSpace(s[1]) THEN Strip(Tail(s))
    ELSE IF IsSpace(s[Len(s)]) THEN Strip(SubSeq(s, 1, Len(s) - 1))
    ELSE s

Digits == <<"0", "1", "2", "3", "4", "5", "6", "7", "8", "9">>

\* str(n) for an integer n >= 0
RECURSIVE DecimalText(_)
DecimalText(n) ==
    IF n < 10 THEN <<Digits[n + 1]>>
    ELSE DecimalText(n \div 10) \o <<Digits[(n % 10) + 1]>>

\* f"{pulse_ms}" for the float pulse_ms = t / 10
FloatText(t) ==
    IF t < 0 THEN <<"-">> \o DecimalText((-t) \div 10) \o <<".">>
                  \o DecimalText((-t) % 10)
    ELSE DecimalText(t \div 10) \o <<".">> \o DecimalText(t % 10)

\* send_command: the line ending of the command is made CR LF
WithCrLf(command) ==
    LET n == Len(command)
    IN  IF n >= 2 /\ command[n - 1] = "\r" /\ command[n] = "\n" THEN command
        ELSE IF n >= 1 /\ command[n] = "\n"
             THEN SubSeq(command, 1, n - 1) \o <<"\r", "\n">>
             ELSE command \o <<"\r", "\n">>

\* send_command: `response` once the wait loop has ended, for the bytes
\* `data` that readline() delivered within the timeout (<<>>: none did)
ResponseOf(data) == Strip(data)

NoStatus == <<"None">>

\* parse_response: (status, message)
parse_response(response) ==
    LET colons == {k \in 1..Len(response) : response[k] = ":"}
    IN  IF colons = {} THEN <<NoStatus, response>>
        ELSE <<SubSeq(response, 1, Min(colons) - 1),
               SubSeq(response, Min(colons) + 1, Len(response))>>

\* the mutant of ping that looks at the status only
PingAcceptsAnyOk(response) ==
    parse_response(response)[1] = <<"O", "K">>

\* ping: not (status != "OK" or message != "READY")
PingAccepts(response) ==
    /\ parse_response(response)[1] = <<"O", "K">>
    /\ parse_response(response)[2] = <<"R", "E", "A", "D", "Y">>

\* the mutant of set_timing / write_data / end_transfer that never raises
StatusIgnored(response) == TRUE

\* set_timing, write_data, end_transfer: not (status != "OK")
StatusOk(response) == parse_response(response)[1] = <<"O", "K">>

\* int(x / y) for y # 0: the quotient truncated toward zero
TruncDiv(x, y) ==
    IF (x >= 0) = (y > 0)
    THEN (IF x >= 0 THEN x ELSE -x) \div (IF y >= 0 THEN y ELSE -y)
    ELSE -((IF x >= 0 THEN x ELSE -x) \div (IF y >= 0 THEN y ELSE -y))

\* the mutant of adjust_transfer_parameters that fills the whole timeout
adjust_transfer_parameters_full(t) ==
    LET estimated_byte_time == (t * 2) + 100
        max_transfer_time == RESPONSE_TIMEOUT
        q == TruncDiv(max_transfer_time, estimated_byte_time)
        m == IF q > 1 THEN q ELSE 1
    IN  IF m < 128 THEN m ELSE 128

\* adjust_transfer_parameters: new_chunk_size for self.pulse_ms = t / 10,
\* where estimated_byte_time is not 0
adjust_transfer_parameters(t) ==
    LET estimated_byte_time == (t * 2) + 100
        max_transfer_time == (RESPONSE_TIMEOUT * 8) \div 10
        q == TruncDiv(max_transfer_time, estimated_byte_time)
        m == IF q > 1 THEN q ELSE 1
    IN  IF m < 128 THEN m ELSE 128

\* write_data: the command for start_address and data
WriteCommand(start, data) ==
    <<"W", ":">> \o Hex2(start) \o <<":">> \o Hex2(Len(data)) \o <<":">>
    \o HexBytes(data) \o <<"\n">>

\* set_timing: the command for pulse_ms = t / 10
TimingCommand(t) == <<"T", ":">> \o FloatText(t) \o <<"\n">>

\* the mutant of the inner loop that goes on over a gap in the addresses
RECURSIVE ChunkEnd_over_gaps(_, _, _, _)
ChunkEnd_over_gaps(addrs, i, j, size) ==
    IF j < Len(addrs) /\ j - i < size
    THEN ChunkEnd_over_gaps(addrs, i, j + 1, size)
    ELSE j

\* the inner while loop of transfer_hex_file: the index j at which it ends,
\* entered with j (0-based) and len(data) = j - i
RECURSIVE ChunkEnd(_, _, _, _)
ChunkEnd(addrs, i, j, size) ==
    IF j < Len(addrs) /\ j - i < size /\ addrs[j + 1] = addrs[i + 1] + (j - i)
    THEN ChunkEnd(addrs, i, j + 1, size)
    ELSE j

\* the command the loop of transfer_hex_file writes at index i, or the E of
\* end_transfer when the loop is over
NextCommand(img, i, size) ==
    LET addrs == sorted(DOMAIN img)
    IN  IF i < Len(addrs)
        THEN LET j == ChunkEnd(addrs, i, i + 1, size)
             IN  WriteCommand(addrs[i + 1] % 256, [k \in 1..(j - i) |-> img[addrs[i + k]]])
        ELSE <<"E", "\n">>

(***************************************************************************)
(* SpecTransfer: transfer_hex_file on a connected PicoSerialLoader.  Each  *)
(* action is one send_command round trip seen from transfer_hex_file: it   *)
(* takes the bytes readline() delivered for the command written last       *)
(* (<<>> when the response timeout passed with none), and goes on to the   *)
(* next write or to the exception that ends the transfer.                  *)
(***************************************************************************)
ReplyMenu ==
    { <<"O", "K", ":", "R", "E", "A", "D", "Y", "\n">>,
      <<"O", "K", ":", "W", "R", "I", "T", "E", "\n">>,
      <<"E", "R", "R", ":", "R", "A", "N", "G", "E", "\n">>,
      <<"O", "K", "\n">>,
      <<"\n">>,
      <<>> }

ImageAddresses == {0, 1, 2, 5, 255, 256}
ImageByte(a) == (a * 37 + 17) % 256
Images ==
    {[a \in S |-> ImageByte(a)] :
        S \in {T \in SUBSET ImageAddresses : Cardinality(T) <= MaxCells}}

\* pulse_ms of transfer_hex_file: None, or tenths of a ms
PulseArgs == {None, 1, 5000, 7000, 10000, 10001, 20000, 0, -50, -60}

InitTransfer ==
    /\ XferIdle
    /\ LoaderIdle
    /\ ParseIdle
    /\ RespIdle

Fail(what) ==
    /\ pc' = "failed"
    /\ error' = what

\* send_command's write of the next command of the transfer
Send(command, next) ==
    /\ written' = Append(written, WithCrLf(command))
    /\ pc' = next
    /\ error' = error

\* transfer_hex_file up to the write of ping(): the hex file is loaded
\* (loader.memory = img) and "P" is sent
TransferStart(img, p) ==
    /\ pc = "idle"
    /\ image' = img
    /\ pulse_arg' = p
    /\ Send(<<"P", "\n">>, "ping")
    /\ UNCHANGED <<pulse_ms, chunk_size, replies, idx, transferred_bytes,
                   parseVars, loaderVars, respVars>>

\* ping() gets its response; on success set_timing writes "T:<pulse_ms>"
PingReply(data) ==
    /\ pc = "ping"
    /\ replies' = Append(replies, data)
    /\ IF ResponseOf(data) = <<>> THEN Fail("TimeoutError") /\ UNCHANGED written
       ELSE IF ~PingAccepts(ResponseOf(data))
       THEN Fail("RuntimeError") /\ UNCHANGED written
       ELSE Send(TimingCommand(IF pulse_arg = None THEN DEFAULT_PULSE ELSE pulse_arg),
                 "timing")
    /\ UNCHANGED <<pulse_arg, image, pulse_ms, chunk_size, idx, transferred_bytes,
                   parseVars, loaderVars, respVars>>

\* set_timing() gets its response; on success the pulse width is stored,
\* the chunk size adjusted, and the transfer loop writes its first command
TimingReply(data) ==
    /\ pc = "timing"
    /\ replies' = Append(replies, data)
    /\ LET t == IF pulse_arg = None THEN DEFAULT_PULSE ELSE pulse_arg
       IN  IF ResponseOf(data) = <<>>
           THEN Fail("TimeoutError") /\ UNCHANGED <<written, pulse_ms, chunk_size>>
           ELSE IF ~StatusOk(ResponseOf(data))
           THEN Fail("RuntimeError") /\ UNCHANGED <<written, pulse_ms, chunk_size>>
           ELSE IF (t * 2) + 100 = 0
           THEN /\ pulse_ms' = t
                /\ Fail("ZeroDivisionError")
                /\ UNCHANGED <<written, chunk_size>>
           ELSE /\ pulse_ms' = t
                /\ chunk_size' = adjust_transfer_parameters(t)
                /\ Send(NextCommand(image, 0, adjust_transfer_parameters(t)),
                        IF image = <<>> THEN "end" ELSE "write")
    /\ UNCHANGED <<pulse_arg, image, idx, transferred_bytes, parseVars, loaderVars, respVars>>

\* write_data() gets its response, with the loop counting the chunk size
\* in place of the bytes of the chunk
WriteReply_counts_chunk_size(data) ==
    /\ pc = "write"
    /\ replies' = Append(replies, data)
    /\ LET addrs == sorted(DOMAIN image)
           j == ChunkEnd(addrs, idx, idx + 1, chunk_size)
       IN  IF ResponseOf(data) = <<>>
           THEN Fail("TimeoutError") /\ UNCHANGED <<written, idx, transferred_bytes>>
           ELSE IF ~StatusOk(ResponseOf(data))
           THEN Fail("RuntimeError") /\ UNCHANGED <<written, idx, transferred_bytes>>
           ELSE /\ transferred_bytes' = transferred_bytes + chunk_size
                /\ idx' = j
                /\ Send(NextCommand(image, j, chunk_size),
                        IF j < Len(addrs) THEN "write" ELSE "end")
    /\ UNCHANGED <<pulse_arg, image, pulse_ms, chunk_size, parseVars, loaderVars, respVars>>

\* write_data() gets its response; on success the loop counts the chunk and
\* writes the next one, or end_transfer writes "E"
WriteReply(data) ==
    /\ pc = "write"
    /\ replies' = Append(replies, data)
    /\ LET addrs == sorted(DOMAIN image)
           j == ChunkEnd(addrs, idx, idx + 1, chunk_size)
       IN  IF ResponseOf(data) = <<>>
           THEN Fail("TimeoutError") /\ UNCHANGED <<written, idx, transferred_bytes>>
           ELSE IF ~StatusOk(ResponseOf(data))
           THEN Fail("RuntimeError") /\ UNCHANGED <<written, idx, transferred_bytes>>
           ELSE /\ transferred_bytes' = transferred_bytes + (j - idx)
                /\ idx' = j
                /\ Send(NextCommand(image, j, chunk_size),
                        IF j < Len(addrs) THEN "write" ELSE "end")
    /\ UNCHANGED <<pulse_arg, image, pulse_ms, chunk_size, parseVars, loaderVars, respVars>>

\* end_transfer() gets its response; on success transfer_hex_file returns
EndReply(data) ==
    /\ pc = "end"
    /\ replies' = Append(replies, data)
    /\ IF ResponseOf(data) = <<>> THEN Fail("TimeoutError")
       ELSE IF ~StatusOk(ResponseOf(data)) THEN Fail("RuntimeError")
       ELSE pc' = "done" /\ error' = error
    /\ UNCHANGED <<pulse_arg, image, pulse_ms, chunk_size, written, idx,
                   transferred_bytes, parseVars, loaderVars, respVars>>

NextTransfer ==
    \/ \E img \in Images, p \in PulseArgs : TransferStart(img, p)
    \/ \E data \in ReplyMenu : PingReply(data)
    \/ \E data \in ReplyMenu : TimingReply(data)
    \/ \E data \in ReplyMenu : WriteReply(data)
    \/ \E data \in ReplyMenu : EndReply(data)

SpecTransfer == InitTransfer /\ [][NextTransfer]_vars

\* send_command's wait loop ends with a response or with the timeout, and
\* transfer_hex_file goes on from there: every step that can be taken is
\* taken
SpecTransferFair == SpecTransfer /\ WF_vars(NextTransfer)

(***************************************************************************)
(* Claims about the transfer (checked under SpecTransfer).                 *)
(***************************************************************************)
CommandTag(k) == written[k][1]

\* the k-th command was answered, and the answer is the line OK:READY
AnsweredReady(k) ==
    /\ k <= Len(replies)
    /\ Strip(replies[k]) = <<"O", "K", ":", "R", "E", "A", "D", "Y">>

\* the k-th command was answered, and the answer's status is OK
AnsweredOk(k) ==
    /\ k <= Len(replies)
    /\ Len(Strip(replies[k])) >= 3
    /\ SubSeq(Strip(replies[k]), 1, 3) = <<"O", "K", ":">>

\* C7: the commands written are a prefix of P, T, W*, E with one request
\* outstanding at most: P first, T second and only after P was answered
\* OK:READY, W only after the command before it (T or W) was answered OK,
\* E last, once, and only after every W was answered OK.
C7_CommandOrder ==
    /\ Len(replies) <= Len(written)
    /\ Len(written) <= Len(replies) + 1
    /\ \A k \in 1..Len(written) :
          /\ k = 1 => CommandTag(k) = "P"
          /\ k = 2 => CommandTag(k) = "T" /\ AnsweredReady(1)
          /\ k >= 3 =>
                /\ CommandTag(k) \in {"W", "E"}
                /\ CommandTag(k - 1) \in {"T", "W"}
                /\ AnsweredOk(k - 1)
          /\ CommandTag(k) = "E" =>
                /\ k = Len(written)
                /\ \A j \in 3..(k - 1) : CommandTag(j) = "W" /\ AnsweredOk(j)

C7_Witness ==
    /\ pc = "done"
    /\ Len(written) = 5
    /\ CommandTag(3) = "W"
    /\ CommandTag(4) = "W"
    /\ CommandTag(5) = "E"

\* the k-th command got a negative reply, or none within the timeout
NegativeReply(k) ==
    \/ Strip(replies[k]) = <<>>
    \/ k = 1 /\ ~AnsweredReady(k)
    \/ k > 1 /\ ~AnsweredOk(k)

\* C8: a negative reply or a timeout ends the transfer with an error, and
\* the command it answered is the last one written: no retry, no further
\* chunk, no E.
C8_FailureIsFatal ==
    \A k \in 1..Len(replies) :
        NegativeReply(k) =>
            /\ k = Len(written)
            /\ pc = "failed"
            /\ error \in {"TimeoutError", "RuntimeError"}

C8_Witness ==
    /\ pc = "failed"
    /\ Len(written) = 4
    /\ CommandTag(3) = "W"
    /\ CommandTag(4) = "W"
    /\ AnsweredOk(3)
    /\ Strip(replies[4]) = <<"E", "R", "R", ":", "R", "A", "N", "G", "E">>

RequestedPulse == IF pulse_arg = None THEN DEFAULT_PULSE ELSE pulse_arg

\* C9 as claimed: for a pulse width outside [0.1, 1000] no T command is
\* written and pulse_ms and chunk_size keep their values, so the session's
\* pulse width is within [0.1, 1000] in every state.
C9_ValidatedBeforeSend ==
    /\ pulse_ms \in 1..10000
    /\ pc # "idle" /\ RequestedPulse \notin 1..10000 =>
          /\ \A k \in 1..Len(written) : CommandTag(k) # "T"
          /\ pulse_ms = DEFAULT_PULSE
          /\ chunk_size = 128

\* set_timing(p) was accepted and returned
TimingAccepted == AnsweredOk(2) /\ error # "ZeroDivisionError"

\* clamp(floor(0.8 * 5000 / (2p + 10)), 1, 128) for p = t / 10 and
\* 2p + 10 # 0, the floor given by its defining inequalities
ClaimedChunk(t) ==
    LET d == (2 * t) + 100
    IN  IF d < 0 THEN 1
        ELSE CHOOSE c \in 1..128 :
                /\ c * d <= 40000 \/ c = 1
                /\ (c + 1) * d > 40000 \/ c = 128

\* C10: chunk_size is an integer in [1, 128] in every state; after an
\* accepted set_timing(p) it is clamp(floor(0.8 * 5000 / (2p + 10)), 1, 128);
\* and whenever the pulse width is within [0.1, 1000], a full chunk's
\* estimated cost chunk_size * (2p + 10) ms is at most 4000 ms.
C10_ChunkSize ==
    /\ chunk_size \in 1..128
    /\ TimingAccepted => chunk_size = ClaimedChunk(pulse_ms)
    /\ pulse_ms \in 1..10000 => chunk_size * ((2 * pulse_ms) + 100) <= 40000

C10_Witness ==
    /\ TimingAccepted
    /\ pulse_ms = 7000
    /\ chunk_size = 2

\* the W commands written so far, in order
WCommands == SelectSeq(written, LAMBDA w : w[1] = "W")

\* len(data) of the k-th W command, read from its length field
ChunkLen(k) == IntHex(SubSeq(WCommands[k], 6, 7))

\* how many sorted addresses the W commands before the k-th carry
RECURSIVE ChunkStart(_)
ChunkStart(k) == IF k <= 1 THEN 0 ELSE ChunkStart(k - 1) + ChunkLen(k - 1)

\* C11: the W commands partition the sorted address set in order: the k-th
\* carries 1..chunk_size bytes, those of the next addresses not carried
\* yet, which are consecutive; it starts after a gap or after a full
\* command; and once E is written every address has been carried.
C11_ChunkPartition ==
    LET addrs == sorted(DOMAIN image)
        n == Len(WCommands)
    IN  /\ ChunkStart(n + 1) <= Len(addrs)
        /\ (\E k \in 1..Len(written) : CommandTag(k) = "E") =>
              ChunkStart(n + 1) = Len(addrs)
        /\ \A k \in 1..n :
              LET first == ChunkStart(k)
                  len == ChunkLen(k)
              IN  /\ len \in 1..chunk_size
                  /\ first + len <= Len(addrs)
                  /\ \A m \in 1..len : addrs[first + m] = addrs[first + 1] + (m - 1)
                  /\ WCommands[k] =
                        WithCrLf(WriteCommand(addrs[first + 1] % 256,
                                              [m \in 1..len |-> image[addrs[first + m]]]))
                  /\ k > 1 =>
                        \/ addrs[first + 1] # addrs[first] + 1
                        \/ ChunkLen(k - 1) = chunk_size

\* a gap starts a new command although the first one is not full
C11_Witness ==
    /\ pc = "done"
    /\ chunk_size = 3
    /\ DOMAIN image = {0, 1, 5}
    /\ Len(WCommands) = 2
    /\ ChunkLen(1) = 2
    /\ ChunkLen(2) = 1

(***************************************************************************)
(* PicoHexLoader (src/main.py): text helpers.  The bytes of the serial     *)
(* port are one-character strings as everywhere else; "0xFF" stands for    *)
(* one byte that is no UTF-8 text.  Pulse widths are tenths of a ms.       *)
(***************************************************************************)
MAX_LINE_LENGTH == 1024

Undecodable == "0xFF"

\* str.startswith
StartsWith(s, prefix) ==
    Len(s) >= Len(prefix) /\ SubSeq(s, 1, Len(prefix)) = prefix

\* s.split(':', maxsplit)
RECURSIVE split(_, _)
split(s, maxsplit) ==
    LET colons == {k \in 1..Len(s) : s[k] = ":"}
    IN  IF maxsplit = 0 \/ colons = {} THEN <<s>>
        ELSE <<SubSeq(s, 1, Min(colons) - 1)>>
             \o split(SubSeq(s, Min(colons) + 1, Len(s)), maxsplit - 1)

\* a conversion that raised ValueError
NoNumber == [ok |-> FALSE, value |-> 0]

\* int(s, 16): white space around, a sign, a 0x prefix, hexadecimal digits
int(s) ==
    LET t == Strip(s)
        signed == t # <<>> /\ t[1] \in {"+", "-"}
        u == IF signed THEN Tail(t) ELSE t
        prefixed == Len(u) >= 2 /\ u[1] = "0" /\ u[2] \in {"x", "X"}
        d == IF prefixed THEN SubSeq(u, 3, Len(u)) ELSE u
    IN  IF d = <<>> \/ \E k \in 1..Len(d) : ~IsHexChar(d[k]) THEN NoNumber
        ELSE [ok |-> TRUE,
              value |-> IF signed /\ t[1] = "-" THEN -IntHex(d) ELSE IntHex(d)]

IsDigit(c) == \E k \in 1..10 : Digits[k] = c

\* int(s) for a string of decimal digits (0 for the empty string)
RECURSIVE IntDec(_)
IntDec(s) ==
    IF s = <<>> THEN 0
    ELSE 10 * IntDec(SubSeq(s, 1, Len(s) - 1))
         + (CHOOSE k \in 1..10 : Digits[k] = s[Len(s)]) - 1

\* float(s), in tenths, for the texts the responder is given here: a sign,
\* digits and a point with at most one digit after it; any other text of
\* the inputs holds a character that float() refuses
float(s) ==
    LET t == Strip(s)
        signed == t # <<>> /\ t[1] \in {"+", "-"}
        u == IF signed THEN Tail(t) ELSE t
        points == {k \in 1..Len(u) : u[k] = "."}
        whole == IF points = {} THEN u ELSE SubSeq(u, 1, Min(points) - 1)
        frac == IF points = {} THEN <<>> ELSE SubSeq(u, Min(points) + 1, Len(u))
        tenths == (IntDec(whole) * 10) + IntDec(frac)
    IN  IF \/ whole = <<>> /\ frac = <<>>
           \/ \E k \in 1..Len(whole) : ~IsDigit(whole[k])
           \/ \E k \in 1..Len(frac) : ~IsDigit(frac[k])
           \/ Len(frac) > 1
        THEN NoNumber
        ELSE [ok |-> TRUE, value |-> IF signed /\ t[1] = "-" THEN -tenths ELSE tenths]

(***************************************************************************)
(* PicoHexLoader.parse_command                                             *)
(***************************************************************************)
\* the dict parse_command returns: either 'error' or 'cmd' and its fields
Command(cmd, pulse, start, length, data) ==
    [error |-> "none", cmd |-> cmd, pulse_ms |-> pulse, start_address |-> start,
     length |-> length, data |-> data]

CommandError(code) ==
    [error |-> code, cmd |-> "none", pulse_ms |-> 0, start_address |-> 0,
     length |-> 0, data |-> <<>>]

\* the mutant of the range test that has no lower end
TimingInRange_no_minimum(pulse) == pulse <= 10000

\* 0.1 <= pulse_ms <= 1000
TimingInRange(pulse) == 1 <= pulse /\ pulse <= 10000

\* the Timing branch, entered with line.startswith('T:')
ParseTiming(l) ==
    LET parts == split(l, 1)
    IN  IF Len(parts) # 2 THEN CommandError("FORMAT")
        ELSE IF ~float(parts[2]).ok THEN CommandError("FORMAT")
        ELSE IF ~TimingInRange(float(parts[2]).value) THEN CommandError("RANGE")
        ELSE Command("T", float(parts[2]).value, 0, 0, <<>>)

\* the Write branch, entered with line.startswith('W:')
ParseWrite(l) ==
    LET parts == split(l, 3)
    IN  IF Len(parts) # 4 THEN CommandError("FORMAT")
        ELSE IF ~int(parts[2]).ok \/ ~int(parts[3]).ok THEN CommandError("FORMAT")
        ELSE LET start == int(parts[2]).value
                 length == int(parts[3]).value
                 hex_data == parts[4]
                 n == Len(hex_data) \div 2
                 piece(i) == int(SubSeq(hex_data, (2 * i) - 1, 2 * i))
             IN  IF length = 0 \/ length > 255 THEN CommandError("LENGTH")
                 ELSE IF Len(hex_data) # length * 2 THEN CommandError("LENGTH")
                 ELSE IF \E i \in 1..n : ~piece(i).ok THEN CommandError("FORMAT")
                 ELSE Command("W", 0, start, length,
                              [i \in 1..n |-> piece(i).value])

parse_command(text) ==
    LET l == Strip(text)
    IN  IF Len(l) = 1
        THEN IF l[1] \in {"P", "E"} THEN Command(l[1], 0, 0, 0, <<>>)
             ELSE CommandError("COMMAND")
        ELSE IF StartsWith(l, <<"T", ":">>) THEN ParseTiming(l)
        ELSE IF StartsWith(l, <<"W", ":">>) THEN ParseWrite(l)
        ELSE CommandError("COMMAND")

(***************************************************************************)
(* PicoHexLoader.read_line                                                 *)
(***************************************************************************)
\* the mutant of the size test that never discards
TooLong_never(buffer) == FALSE

\* len(self.rx_buffer) > MAX_LINE_LENGTH
TooLong(buffer) == Len(buffer) > MAX_LINE_LENGTH

\* read_line: self.rx_buffer after the call and the value returned, for the
\* bytes `data` that serial.read() gave (<<>>: none)
read_line(buffer, data) ==
    LET extended == buffer \o data
        newlines == {k \in 1..Len(extended) : extended[k] = "\n"}
    IN  IF TooLong(extended) THEN [rx_buffer |-> <<>>, line |-> NoLine]
        ELSE IF newlines = {} THEN [rx_buffer |-> extended, line |-> NoLine]
        ELSE LET newline_pos == Min(newlines)
                 upto == SubSeq(extended, 1, newline_pos - 1)
                 line_data == IF upto # <<>> /\ upto[Len(upto)] = "\r"
                              THEN SubSeq(upto, 1, Len(upto) - 1) ELSE upto
                 rest == SubSeq(extended, newline_pos + 1, Len(extended))
             IN  IF \E k \in 1..Len(line_data) : line_data[k] = Undecodable
                 THEN [rx_buffer |-> rest, line |-> NoLine]
                 ELSE [rx_buffer |-> rest, line |-> line_data]

(***************************************************************************)
(* PicoHexLoader.run: what one pass of the loop does.  The trace `events`  *)
(* holds, in order, the lines read_line returned, the response lines       *)
(* written to the serial port, the calls of write_byte and the resets of   *)
(* the pins.                                                               *)
(***************************************************************************)
Event(kind, text, address, data) ==
    [kind |-> kind, text |-> text, address |-> address, data |-> data]

LineTaken(text) == Event("line", text, 0, 0)

\* send_response(status, message): the line written to the serial port
send_response(st, message) ==
    Event("send", st \o <<":">> \o message \o <<"\n">>, 0, 0)

\* write_byte(address, data)
write_byte(address, data) == Event("write_byte", <<>>, address, data)

\* the loop of run() that drives every address and data pin low and /WE high
PinsReset == Event("reset", <<>>, 0, 0)

OK == <<"O", "K">>
ERR == <<"E", "R", "R">>

\* the mutant of handle_write_command that does not limit the address
handle_write_command_no_wrap(start, length, data) ==
    [i \in 1..(IF length < Len(data) THEN length ELSE Len(data)) |->
        write_byte(start + (i - 1), data[i])]
    \o <<IF length > Len(data) THEN send_response(ERR, <<"F", "O", "R", "M", "A", "T">>)
         ELSE send_response(OK, <<"W", "R", "I", "T", "E">>)>>

\* handle_write_command: the calls of write_byte and the response; data[i]
\* past the end of data raises IndexError, which run() answers ERR:FORMAT
handle_write_command(start, length, data) ==
    [i \in 1..(IF length < Len(data) THEN length ELSE Len(data)) |->
        write_byte((start + (i - 1)) % 256, data[i])]
    \o <<IF length > Len(data) THEN send_response(ERR, <<"F", "O", "R", "M", "A", "T">>)
         ELSE send_response(OK, <<"W", "R", "I", "T", "E">>)>>

\* the mutant of the error branch that also resets the pins
ErrorEvents_with_reset(res) == <<send_response(ERR, res), PinsReset>>

\* 'error' in result: the response, then `continue`
ErrorEvents(res) == <<send_response(ERR, res)>>

\* the mutant of the E branch that resets the pins before it answers
EndEvents_reset_first == <<PinsReset, send_response(OK, <<"E", "N", "D">>)>>

\* cmd == 'E'
EndEvents == <<send_response(OK, <<"E", "N", "D">>), PinsReset>>

\* the body of the loop of run() from parse_command on: what it does, in order
RunEvents(res) ==
    IF res.error # "none"
    THEN ErrorEvents(CASE res.error = "COMMAND" -> <<"C", "O", "M", "M", "A", "N", "D">>
                       [] res.error = "FORMAT" -> <<"F", "O", "R", "M", "A", "T">>
                       [] res.error = "RANGE" -> <<"R", "A", "N", "G", "E">>
                       [] res.error = "LENGTH" -> <<"L", "E", "N", "G", "T", "H">>)
    ELSE IF res.cmd = "P" THEN <<send_response(OK, <<"R", "E", "A", "D", "Y">>)>>
    ELSE IF res.cmd = "T"
    THEN <<send_response(OK, <<"T", "I", "M", "I", "N", "G", ":">>
                             \o FloatText(res.pulse_ms))>>
    ELSE IF res.cmd = "W"
    THEN handle_write_command(res.start_address, res.length, res.data)
    ELSE EndEvents

\* cmd == 'T': self.we_pulse_ms = result['pulse_ms']
StoredPulse(res, old) ==
    IF res.error = "none" /\ res.cmd = "T" THEN res.pulse_ms ELSE old

\* the levels of the pins after the events evs
RECURSIVE PinsAfter(_, _)
PinsAfter(pins, evs) ==
    IF evs = <<>> THEN pins
    ELSE PinsAfter(
            IF Head(evs).kind = "write_byte"
            THEN [addr |-> Head(evs).address % 256, data |-> Head(evs).data % 256,
                  we |-> TRUE]
            ELSE IF Head(evs).kind = "reset"
            THEN [addr |-> 0, data |-> 0, we |-> TRUE]
            ELSE pins,
            Tail(evs))

(***************************************************************************)
(* SpecResponder: run() on what the serial port delivers.  Each read pass  *)
(* gets one element of ReadMenu from serial.read().                        *)
(***************************************************************************)
MaxPasses == 3      \* read passes of one run (SpecResponder)

ReadMenu ==
    { <<>>,
      [k \in 1..MAX_LINE_LENGTH |-> "x"],
      <<Undecodable, "\n">>,
      <<"P", "\n">>,
      <<"E", "\r", "\n">>,
      <<"T", ":", "2", ".", "5", "\n">>,
      <<"T", ":", "2", "0", "0", "0", "\n">>,
      <<"T", ":", "0", "\n">>,
      <<"T", ":", "a", "b", "c", "\n">>,
      <<"W", ":", "F", "E", ":", "0", "4", ":", "1", "1", "2", "2", "3", "3", "4", "4", "\n">>,
      <<"W", ":", "5", ":", "1", ":", "A", "A", "\n">>,
      <<"W", ":", "0", "0", ":", "0", "2", ":", "A", "A", "\n">>,
      <<"X", "\n">>,
      <<"\n">>,
      <<"W", ":", "0">>,
      <<"0", ":", "0", "1", ":", "7", "F", "\n">>,
      <<"x">> }

InitResponder ==
    /\ RespIdle
    /\ LoaderIdle
    /\ ParseIdle
    /\ XferIdle

\* run() up to its loop
RunStart ==
    /\ rpc = "start"
    /\ events' = Append(events, send_response(OK, <<"R", "E", "A", "D", "Y">>))
    /\ rpc' = "read"
    /\ UNCHANGED <<passes, rx_data, rx_stream, rx_buffer, rline, we_pulse_ms,
                   addr_pins, data_pins, we_pin, parseVars, loaderVars, xferVars>>

\* line = self.read_line(), and `continue` if not line
ReadLine(data) ==
    /\ rpc = "read"
    /\ passes < MaxPasses
    /\ passes' = passes + 1
    /\ rx_data' = data
    /\ rx_stream' = rx_stream \o data
    /\ LET r == read_line(rx_buffer, data)
       IN  /\ rx_buffer' = r.rx_buffer
           /\ rline' = r.line
           /\ events' = IF r.line = NoLine THEN events
                        ELSE Append(events, LineTaken(r.line))
           /\ rpc' = IF r.line = NoLine \/ r.line = <<>> THEN "read" ELSE "dispatch"
    /\ UNCHANGED <<we_pulse_ms, addr_pins, data_pins, we_pin, parseVars,
                   loaderVars, xferVars>>

\* the rest of the pass: parse_command(line) and the branch for its result
Dispatch ==
    /\ rpc = "dispatch"
    /\ LET res == parse_command(rline)
           pins == PinsAfter([addr |-> addr_pins, data |-> data_pins, we |-> we_pin],
                             RunEvents(res))
       IN  /\ events' = events \o RunEvents(res)
           /\ we_pulse_ms' = StoredPulse(res, we_pulse_ms)
           /\ addr_pins' = pins.addr
           /\ data_pins' = pins.data
           /\ we_pin' = pins.we
    /\ rpc' = "read"
    /\ UNCHANGED <<passes, rx_data, rx_stream, rx_buffer, rline, parseVars,
                   loaderVars, xferVars>>

NextResponder ==
    \/ RunStart
    \/ \E data \in ReadMenu : ReadLine(data)
    \/ Dispatch

SpecResponder == InitResponder /\ [][NextResponder]_vars

(***************************************************************************)
(* Claims about the responder (checked under SpecResponder).               *)
(***************************************************************************)
\* the k-th event is a line that run() has dealt with
Handled(k) ==
    /\ events[k].kind = "line"
    /\ ~(k = Len(events) /\ rpc = "dispatch")

\* l is W:<addr>:<len>:<data> with two hex digits of address, two of
\* length, 1 <= len <= 255, and 2 * len hex digits of data
ValidWrite(l) ==
    /\ Len(l) >= 8
    /\ l[1] = "W" /\ l[2] = ":" /\ l[5] = ":" /\ l[8] = ":"
    /\ \A k \in {3, 4, 6, 7} \cup 9..Len(l) : IsHexChar(l[k])
    /\ IntHex(SubSeq(l, 6, 7)) \in 1..255
    /\ Len(l) = 8 + (2 * IntHex(SubSeq(l, 6, 7)))

WriteAddr(l) == IntHex(SubSeq(l, 3, 4))
WriteLen(l) == IntHex(SubSeq(l, 6, 7))
WriteData(l) == FromHex(SubSeq(l, 9, Len(l)))

\* C12: a valid W command is followed by exactly len calls of write_byte,
\* the i-th with address (addr + i) mod 256 and the i-th data byte, in
\* ascending i, and then by the response OK:WRITE.
C12_WriteApplied ==
    \A k \in 1..Len(events) :
        Handled(k) /\ ValidWrite(events[k].text) =>
            LET l == events[k].text
                n == WriteLen(l)
            IN  /\ Len(events) >= k + n + 1
                /\ \A i \in 0..(n - 1) :
                      events[k + 1 + i] =
                          write_byte((WriteAddr(l) + i) % 256, WriteData(l)[i + 1])
                /\ events[k + n + 1] = send_response(OK, <<"W", "R", "I", "T", "E">>)
                /\ Len(events) >= k + n + 2 => events[k + n + 2].kind = "line"

\* the write at 0xFE of length 4 has gone to 0xFE, 0xFF, 0x00, 0x01
C12_Witness ==
    \E k \in 1..Len(events) :
        /\ Handled(k)
        /\ ValidWrite(events[k].text)
        /\ WriteAddr(events[k].text) = 254
        /\ WriteLen(events[k].text) = 4
        /\ events[k + 3] = write_byte(0, 51)
        /\ events[k + 4] = write_byte(1, 68)
        /\ addr_pins = 1

\* the T commands of the inputs: the line, x in tenths of a ms, and x as
\* the response echoes it
TimingLines ==
    { [line |-> <<"T", ":", "2", ".", "5">>, x |-> 25, echo |-> <<"2", ".", "5">>],
      [line |-> <<"T", ":", "2", "0", "0", "0">>, x |-> 20000,
       echo |-> <<"2", "0", "0", "0", ".", "0">>],
      [line |-> <<"T", ":", "0">>, x |-> 0, echo |-> <<"0", ".", "0">>] }

RangeError == send_response(ERR, <<"R", "A", "N", "G", "E">>)
TimingSet(echo) == send_response(OK, <<"T", "I", "M", "I", "N", "G", ":">> \o echo)

\* what the responder does with the command T:<x> it has taken
C13_Step ==
    \A t \in TimingLines :
        rpc = "dispatch" /\ rline = t.line =>
            IF 1 <= t.x /\ t.x <= 10000
            THEN /\ we_pulse_ms' = t.x
                 /\ events' = Append(events, TimingSet(t.echo))
            ELSE /\ we_pulse_ms' = we_pulse_ms
                 /\ events' = Append(events, RangeError)

\* C13: T:<x> is answered OK:TIMING:<x> and stores x when 0.1 <= x <= 1000,
\* and is answered ERR:RANGE and stores nothing otherwise; the stored pulse
\* width is within [0.1, 1000] in every state.
C13_TimingRange == [](we_pulse_ms \in 1..10000) /\ [][C13_Step]_vars

\* T:2000 was refused and T:2.5 then accepted
C13_Witness ==
    /\ we_pulse_ms = 25
    /\ Len(events) = 5
    /\ events[2] = LineTaken(<<"T", ":", "2", "0", "0", "0">>)
    /\ events[3] = RangeError
    /\ events[5] = TimingSet(<<"2", ".", "5">>)

\* the events that follow the line events[k], up to the next line taken
AfterLine(k) ==
    LET later == {j \in (k + 1)..Len(events) : events[j].kind = "line"}
    IN  (k + 1)..((IF later = {} THEN Len(events) + 1 ELSE Min(later)) - 1)

\* C14 as claimed: every line read_line has returned, also the empty one,
\* is answered by exactly one response line before the next line is taken.
C14_OneResponsePerLine ==
    \A k \in 1..Len(events) :
        Handled(k) =>
            Cardinality({j \in AfterLine(k) : events[j].kind = "send"}) = 1

\* a read pass whose accumulated bytes exceed the cap and hold no line
\* terminator drops them all, writes nothing, and the loop reads on
C15_Step ==
    LET accumulated == rx_buffer \o rx_data'
    IN  /\ rpc = "read"
        /\ passes' = passes + 1
        /\ Len(accumulated) > MAX_LINE_LENGTH
        /\ \A k \in 1..Len(accumulated) : accumulated[k] # "\n"
        => /\ rx_buffer' = <<>>
           /\ events' = events
           /\ rpc' = "read"

\* C15: after every read pass the receive buffer holds at most 1024 bytes;
\* more than 1024 accumulated bytes without a terminator are discarded
\* whole, with no response, and the bytes that arrive next are parsed.
C15_BufferCap == [](Len(rx_buffer) <= MAX_LINE_LENGTH) /\ [][C15_Step]_vars

\* the byte that made 1025 has emptied the buffer
C15_Witness ==
    /\ rpc = "read"
    /\ passes >= 2
    /\ rx_data = <<"x">>
    /\ rx_buffer = <<>>
    /\ Len(events) = 1

ErrorResponses ==
    { send_response(ERR, <<"C", "O", "M", "M", "A", "N", "D">>),
      send_response(ERR, <<"F", "O", "R", "M", "A", "T">>),
      send_response(ERR, <<"R", "A", "N", "G", "E">>),
      send_response(ERR, <<"L", "E", "N", "G", "T", "H">>) }

\* the line taken is answered with an error response
AnswersError ==
    /\ rpc = "dispatch"
    /\ \E j \in (Len(events) + 1)..Len(events') :
          /\ events'[j].kind = "send"
          /\ StartsWith(events'[j].text, <<"E", "R", "R", ":">>)

\* a line answered ERR:<code> does nothing but write that response
C16_Step ==
    AnswersError =>
        /\ Len(events') = Len(events) + 1
        /\ SubSeq(events', 1, Len(events)) = events
        /\ events'[Len(events')] \in ErrorResponses
        /\ we_pulse_ms' = we_pulse_ms
        /\ rx_buffer' = rx_buffer
        /\ addr_pins' = addr_pins
        /\ data_pins' = data_pins
        /\ we_pin' = we_pin
        /\ rpc' = "read"

\* C16: a command line answered ERR:<code> (COMMAND, FORMAT, RANGE or
\* LENGTH) causes no call of write_byte and leaves the stored pulse width,
\* the pins and the rest of the receive buffer as they were, so what is
\* sent next is answered as if the rejected line had never arrived.
C16_ErrorLeavesState == [][C16_Step]_vars

\* W:00:02:AA was refused after W:5:1:AA had driven the pins
C16_Witness ==
    /\ rpc = "read"
    /\ Len(events) = 6
    /\ events[3] = write_byte(5, 170)
    /\ events[6] = send_response(ERR, <<"L", "E", "N", "G", "T", "H">>)
    /\ addr_pins = 5
    /\ data_pins = 170

\* C17 as claimed: a W command whose address field is not two hex digits,
\* whose length field is not two hex digits of a value in 1..255, or whose
\* data field is not 2 * length hex digits is answered ERR:FORMAT or
\* ERR:LENGTH and applies no byte.
C17_StrictFields ==
    \A k \in 1..Len(events) :
        /\ Handled(k)
        /\ StartsWith(events[k].text, <<"W", ":">>)
        /\ ~ValidWrite(events[k].text)
        => /\ \A j \in AfterLine(k) : events[j].kind = "send"
           /\ \E j \in AfterLine(k) :
                 events[j] \in { send_response(ERR, <<"F", "O", "R", "M", "A", "T">>),
                                 send_response(ERR, <<"L", "E", "N", "G", "T", "H">>) }

\* what the responder does with the command E it has taken
C18_Step ==
    rpc = "dispatch" /\ rline = <<"E">> =>
        /\ events' = events \o <<send_response(OK, <<"E", "N", "D">>), PinsReset>>
        /\ addr_pins' = 0
        /\ data_pins' = 0
        /\ we_pin' = TRUE
        /\ we_pulse_ms' = we_pulse_ms

\* C18: on E the responder writes OK:END and only then resets the pins;
\* afterwards every address and data pin is low, /WE is high, and the
\* stored pulse width is what it was.
C18_EndResets == [][C18_Step]_vars

\* E after T:2.5 and a write: the pins are back at rest, the pulse width kept
C18_Witness ==
    /\ rpc = "read"
    /\ events[Len(events)] = PinsReset
    /\ events[Len(events) - 1] = send_response(OK, <<"E", "N", "D">>)
    /\ \E k \in 1..Len(events) : events[k].kind = "write_byte"
    /\ we_pulse_ms = 25
    /\ addr_pins = 0
    /\ data_pins = 0
    /\ we_pin

(***************************************************************************)
(* Further claims about decode sessions (checked under SpecDecode).        *)
(***************************************************************************)
\* C19 as claimed: after a session that returned and whose input held no
\* StartLinearAddr record, start_address is None, whatever the loader did
\* before.
C19_NoStaleEntryPoint ==
    /\ status = "returned"
    /\ \A k \in 1..Len(records) : records[k].record_type # START_LINEAR_ADDR
    => start_address = None

\* the session has processed an EndOfFile record
SeenEndOfFile ==
    /\ status = "running"
    /\ \E k \in 1..Len(records) : records[k].record_type = END_OF_FILE

\* C20 as claimed: once a session has processed an EndOfFile record, no
\* later record of the same input changes the stored cells, the extension
\* state or the entry point.
C20_FinalAfterEof ==
    [][SeenEndOfFile =>
          /\ memory' = memory
          /\ extended_linear_address' = extended_linear_address
          /\ extended_segment_address' = extended_segment_address
          /\ start_address' = start_address]_vars

\* the session has processed a StartLinearAddr record
SeenStartLinear ==
    /\ status = "running"
    /\ \E k \in 1..Len(records) : records[k].record_type = START_LINEAR_ADDR

\* C21 as claimed: within one session the entry point is set at most once;
\* a later StartLinearAddr record of the same session does not change it.
C21_EntryPointSetOnce == [][SeenStartLinear => start_address' = start_address]_vars

(***************************************************************************)
(* Further claims about the responder (checked under SpecResponder).       *)
(***************************************************************************)
\* C22 as claimed: a read pass whose buffer holds a line terminator takes
\* the line up to the first terminator out of the buffer, keeps the rest
\* and hands the line (if it is text) to the dispatch, however long the
\* buffer is; the guard never drops such a line.
C22_GuardSparesLines ==
    [][LET accumulated == rx_buffer \o rx_data'
           newlines == {k \in 1..Len(accumulated) : accumulated[k] = "\n"}
           upto == SubSeq(accumulated, 1, Min(newlines) - 1)
           text == IF upto # <<>> /\ upto[Len(upto)] = "\r"
                   THEN SubSeq(upto, 1, Len(upto) - 1) ELSE upto
       IN  rpc = "read" /\ passes' = passes + 1 /\ newlines # {} =>
              /\ rx_buffer' = SubSeq(accumulated, Min(newlines) + 1, Len(accumulated))
              /\ (\A k \in 1..Len(text) : text[k] # Undecodable) =>
                    /\ rline' = text
                    /\ events' = Append(events, LineTaken(text))]_vars

\* the lines read_line returns, pass after pass, when serial.read() gives
\* `data` in the first pass and nothing afterwards, until the buffer holds
\* no terminator
RECURSIVE Drain(_, _)
Drain(buffer, data) ==
    LET r == read_line(buffer, data)
    IN  (IF r.line = NoLine THEN <<>> ELSE <<r.line>>)
        \o (IF \E k \in 1..Len(r.rx_buffer) : r.rx_buffer[k] = "\n"
            THEN Drain(r.rx_buffer, <<>>) ELSE <<>>)

\* the lines read_line has returned so far
LinesTaken ==
    LET taken == SelectSeq(events, LAMBDA e : e.kind = "line")
    IN  [k \in 1..Len(taken) |-> taken[k].text]

\* C23 as claimed: the lines taken from the bytes delivered so far are those
\* that the same bytes give when they arrive in one read: a prefix of them
\* while the buffer still holds a terminated line, all of them once it
\* does not.
C23_SplitIndependent ==
    LET whole == Drain(<<>>, rx_stream)
    IN  /\ Len(LinesTaken) <= Len(whole)
        /\ SubSeq(whole, 1, Len(LinesTaken)) = LinesTaken
        /\ (\A k \in 1..Len(rx_buffer) : rx_buffer[k] # "\n") => LinesTaken = whole

(***************************************************************************)
(* SpecSession: the methods of one connected PicoSerialLoader called one   *)
(* by one, in any order, by a caller that catches their exceptions.  pc    *)
(* is "idle" between calls and names the method inside one; error is the   *)
(* exception the last call raised.                                         *)
(***************************************************************************)
MaxCalls == 2       \* method calls on one session (SpecSession)

\* the calls a caller makes: the method and the command it sends
SessionCalls ==
    { [method |-> "ping", pulse |-> 0, command |-> <<"P", "\n">>],
      [method |-> "timing", pulse |-> 5000, command |-> TimingCommand(5000)],
      [method |-> "write", pulse |-> 0, command |-> WriteCommand(254, <<17, 34>>)],
      [method |-> "end", pulse |-> 0, command |-> <<"E", "\n">>] }

InitSession ==
    /\ XferIdle
    /\ LoaderIdle
    /\ ParseIdle
    /\ RespIdle

\* ping(), set_timing(), write_data() or end_transfer() up to the write of
\* send_command
SessionCall(c) ==
    /\ pc = "idle"
    /\ Len(written) < MaxCalls
    /\ written' = Append(written, WithCrLf(c.command))
    /\ pc' = c.method
    /\ pulse_arg' = c.pulse
    /\ error' = "none"
    /\ UNCHANGED <<image, pulse_ms, chunk_size, replies, idx, transferred_bytes,
                   parseVars, loaderVars, respVars>>

\* the rest of the method: send_command gets `data` (<<>>: nothing within
\* the timeout), the method tests the response and returns or raises
SessionReturn(data) ==
    /\ pc \in {"ping", "timing", "write", "end"}
    /\ replies' = Append(replies, data)
    /\ pc' = "idle"
    /\ IF ResponseOf(data) = <<>>
       THEN error' = "TimeoutError" /\ UNCHANGED <<pulse_ms, chunk_size>>
       ELSE IF pc = "ping"
       THEN /\ error' = IF PingAccepts(ResponseOf(data)) THEN "none" ELSE "RuntimeError"
            /\ UNCHANGED <<pulse_ms, chunk_size>>
       ELSE IF ~StatusOk(ResponseOf(data))
       THEN error' = "RuntimeError" /\ UNCHANGED <<pulse_ms, chunk_size>>
       ELSE IF pc = "timing"
       THEN /\ pulse_ms' = pulse_arg
            /\ chunk_size' = adjust_transfer_parameters(pulse_arg)
            /\ error' = "none"
       ELSE error' = "none" /\ UNCHANGED <<pulse_ms, chunk_size>>
    /\ UNCHANGED <<pulse_arg, image, written, idx, transferred_bytes, parseVars,
                   loaderVars, respVars>>

NextSession ==
    \/ \E c \in SessionCalls : SessionCall(c)
    \/ \E data \in ReplyMenu : SessionReturn(data)

SpecSession == InitSession /\ [][NextSession]_vars

(***************************************************************************)
(* Claims about the session (checked under SpecSession).                   *)
(***************************************************************************)
\* the k-th command failed: no response in time, or one its method refuses
CommandFailed(k) ==
    \/ Strip(replies[k]) = <<>>
    \/ CommandTag(k) = "P" /\ ~PingAccepts(Strip(replies[k]))
    \/ CommandTag(k) # "P" /\ ~StatusOk(Strip(replies[k]))

\* C24 as claimed: once a command of the session has failed, no method
\* writes a command to the transport any more.
C24_FailedSessionRefuses ==
    [][(\E k \in 1..Len(replies) : CommandFailed(k)) => written' = written]_vars

(***************************************************************************)
(* SpecLink: transfer_hex_file of the initiator and run() of the responder *)
(* on the two directions of one serial link.  The bytes in flight are what *)
(* one side has written and the other has not read yet: written against    *)
(* rx_stream towards the device, the "send" events against the responses   *)
(* readline() has delivered towards the host.                              *)
(***************************************************************************)
RECURSIVE Flatten(_)
Flatten(seqs) == IF seqs = <<>> THEN <<>> ELSE Head(seqs) \o Flatten(Tail(seqs))

\* the bytes the initiator has written and the responder has not read
ToDevice == SubSeq(Flatten(written), Len(rx_stream) + 1, Len(Flatten(written)))

\* the response lines the responder has written, oldest first
Sent == SelectSeq(events, LAMBDA e : e.kind = "send")

\* the number of response lines readline() delivered up to the k-th command
Consumed(k) == Cardinality({j \in 1..k : replies[j] # <<>>})

\* the response lines waiting in the initiator's input buffer
ToHost == SubSeq(Sent, Consumed(Len(replies)) + 1, Len(Sent))

\* loader.memory of the transferred file in SpecLink: the bytes differ
\* between addresses that are equal modulo 256
LinkImages ==
    {[a \in S |-> a % 251] :
        S \in {T \in SUBSET ImageAddresses : Cardinality(T) <= MaxCells}}

\* pulse_ms of transfer_hex_file in SpecLink
LinkPulseArgs == {None, 20000}

\* connect() has cleared the input buffer; the responder either starts
\* after that (rpc = "start") or is in its loop already (rpc = "read")
InitLink ==
    /\ XferIdle
    /\ LoaderIdle
    /\ ParseIdle
    /\ rpc \in {"start", "read"}
    /\ passes = 0
    /\ rx_data = <<>>
    /\ rx_stream = <<>>
    /\ rx_buffer = <<>>
    /\ rline = NoLine
    /\ we_pulse_ms = DEFAULT_WE_PULSE
    /\ addr_pins = 0
    /\ data_pins = 0
    /\ we_pin = TRUE
    /\ events = <<>>

\* one pass of the responder's loop whose serial.read() gets `data`
LinkRead(data) ==
    /\ rpc = "read"
    /\ rx_data' = data
    /\ rx_stream' = rx_stream \o data
    /\ LET r == read_line(rx_buffer, data)
       IN  /\ rx_buffer' = r.rx_buffer
           /\ rline' = r.line
           /\ events' = IF r.line = NoLine THEN events
                        ELSE Append(events, LineTaken(r.line))
           /\ rpc' = IF r.line = NoLine \/ r.line = <<>> THEN "read" ELSE "dispatch"
    /\ UNCHANGED <<passes, we_pulse_ms, addr_pins, data_pins, we_pin, parseVars,
                   loaderVars, xferVars>>

\* how many of the waiting bytes one serial.read() of the responder gets
ReadSizes == IF ToDevice = <<>> THEN {} ELSE {1, Len(ToDevice)}

\* what send_command's wait loop ends with: the oldest waiting response
\* line, or nothing (the timeout) while none is waiting
Delivered == IF ToHost = <<>> THEN <<>> ELSE ToHost[1].text

NextLink ==
    \/ \E img \in LinkImages, p \in LinkPulseArgs : TransferStart(img, p)
    \/ PingReply(Delivered)
    \/ TimingReply(Delivered)
    \/ WriteReply(Delivered)
    \/ EndReply(Delivered)
    \/ RunStart
    \/ \E n \in ReadSizes : LinkRead(SubSeq(ToDevice, 1, n))
    \/ Dispatch

SpecLink == InitLink /\ [][NextLink]_vars

(***************************************************************************)
(* Claims about the link (checked under SpecLink).                         *)
(***************************************************************************)
\* the number of events of one kind among the first p
EventsUpTo(p, kind) == Cardinality({j \in 1..p : events[j].kind = kind})

\* the position in events of the m-th response line
SentAt(m) == CHOOSE p \in 1..Len(events) :
                events[p].kind = "send" /\ EventsUpTo(p, "send") = m

\* C25 as claimed: the responder writes a response line only as the reply
\* to a command line it has taken, and the response send_command gets for
\* the k-th command was written while the responder handled the k-th line.
C25_ReplyToOwnCommand ==
    /\ \A p \in 1..Len(events) :
          events[p].kind = "send" => EventsUpTo(p, "send") <= EventsUpTo(p, "line")
    /\ \A k \in 1..Len(replies) :
          replies[k] # <<>> => EventsUpTo(SentAt(Consumed(k)), "line") = k

\* the positions in events of the bytes applied at device address d
AppliedAt(d) == {j \in 1..Len(events) : events[j].kind = "write_byte" /\ events[j].address = d}

\* C26 as claimed: when a transfer has completed, the byte last applied at
\* device address a mod 256 is the image's byte at a, for every address a
\* of the image, and no other device address has been written.
C26_ImageOnDevice ==
    pc = "done" =>
        /\ \A a \in DOMAIN image :
              /\ AppliedAt(a % 256) # {}
              /\ events[Max(AppliedAt(a % 256))].data = image[a]
        /\ \A j \in 1..Len(events) :
              events[j].kind = "write_byte" =>
                 \E a \in DOMAIN image : events[j].address = a % 256

(***************************************************************************)
(* Termination of the transfer (checked under SpecTransferFair).           *)
(***************************************************************************)
\* n: the number of cells of the image
ImageSize == Cardinality(DOMAIN image)

\* end_transfer has written "E"
EndSent == \E k \in 1..Len(written) : CommandTag(k) = "E"

\* C27: a transfer of an image with n cells ends, in success or in error,
\* after at most n W commands; the count of transferred bytes never
\* decreases, never exceeds n, and is n when E is sent.
C27_TransferTerminates ==
    /\ [](/\ Len(WCommands) <= ImageSize
          /\ transferred_bytes <= ImageSize
          /\ EndSent => transferred_bytes = ImageSize)
    /\ [][transferred_bytes' >= transferred_bytes]_vars
    /\ <>(pc \in {"done", "failed"})

\* a transfer of three cells apart from each other has ended in success
\* after three W commands
C27_Witness ==
    /\ pc = "done"
    /\ ImageSize = 3
    /\ Len(WCommands) = 3
    /\ transferred_bytes = 3
    /\ EndSent

====
